---- MODULE Spec2Model ----
(***************************************************************************)
(* Model of the chart composition pipeline of plot.py: figure(),           *)
(* sort_plot_elements() and axis_properties().                             *)
(*                                                                         *)
(* A table (pandas DataFrame) is a record                                  *)
(*     [index |-> sequence of row labels,                                  *)
(*      cols  |-> sequence of [name |-> column name, v |-> column values]] *)
(* where every v has the length of index.  Column order is the order of    *)
(* cols; a series (one column) is the sequence v.                          *)
(***************************************************************************)
EXTENDS Integers, Sequences, FiniteSets

\* ------------------------------------------------------------------ bounds
\* number of plotted timesteps of a chart
NumSteps == 2
\* largest value of a series at one timestep
MaxVal == 2
\* largest number of columns of the narrow tables given to the sorter
MaxCols == 3
\* horizon lengths 1..MaxHorizon are all given to the axis scaler
MaxHorizon == 60

\* ------------------------------------------------------- generic helpers
RECURSIVE SumSeq(_)
SumSeq(s) == IF s = <<>> THEN 0 ELSE Head(s) + SumSeq(Tail(s))

Last(s) == s[Len(s)]

\* s[:-1]
DropLast(s) == SubSeq(s, 1, Len(s) - 1)

Swap(s, i, j) == [s EXCEPT ![i] = s[j], ![j] = s[i]]

\* ------------------------------------------------------ DataFrame helpers
\* list(table.columns)
Columns(table) == [k \in 1..Len(table.cols) |-> table.cols[k].name]

\* name in table.columns
HasColumn(table, name) == \E k \in 1..Len(table.cols) : table.cols[k].name = name

\* table[name] (the first column of that name)
Series(table, name) ==
    LET k == CHOOSE i \in 1..Len(table.cols) :
                 /\ table.cols[i].name = name
                 /\ \A j \in 1..(i - 1) : table.cols[j].name # name
    IN  table.cols[k].v

\* series.any(): some value is nonzero
any(series) == \E i \in 1..Len(series) : series[i] # 0

\* table.join(other): the columns of other appended on the shared index
Join(table, other) == [table EXCEPT !.cols = @ \o other]

\* table.rename(columns={old: new}, inplace=True)
Rename(table, old, new) ==
    [table EXCEPT !.cols =
        [k \in 1..Len(@) |-> IF @[k].name = old
                             THEN [@[k] EXCEPT !.name = new] ELSE @[k]]]

\* the table left by table.pop(name) / del table[name]
Without(table, name) ==
    [table EXCEPT !.cols = SelectSeq(@, LAMBDA c : c.name # name)]

\* table.append(row): one more row, labelled label, with row[k] in column k
AppendRow(table, label, row) ==
    [index |-> Append(table.index, label),
     cols  |-> [k \in 1..Len(table.cols) |->
                  [table.cols[k] EXCEPT !.v = Append(@, row[k])]]]

\* table.ix[label]: the row labelled label, one value per column
Row(table, label) ==
    LET r == CHOOSE i \in 1..Len(table.index) : table.index[i] = label
    IN  [k \in 1..Len(table.cols) |-> table.cols[k].v[r]]

\* table.last_valid_index(): no value of a table is missing, so the last label
LastValidIndex(table) == Last(table.index)

\* table[names]: the columns named, in the order of names
Select(table, names) ==
    [table EXCEPT !.cols =
        [k \in 1..Len(names) |-> [name |-> names[k], v |-> Series(table, names[k])]]]

\* table[:-1]
DropLastRow(table) ==
    [index |-> DropLast(table.index),
     cols  |-> [k \in 1..Len(table.cols) |->
                  [table.cols[k] EXCEPT !.v = DropLast(@)]]]

\* ------------------------------------------------------------- np.std
\* np.std(x) is sqrt(mean(|x - mean(x)|^2)) = sqrt(n*sum(x^2) - sum(x)^2) / n.
\* All columns of one table have the same n, so the std row is ordered, and
\* tied, exactly as the integer n*sum(x^2) - sum(x)^2 kept here in its place.
std(x) ==
    LET n == Len(x)
    IN  n * SumSeq([i \in 1..n |-> x[i] * x[i]]) - SumSeq(x) * SumSeq(x)

\* ------------------------------------------------- Series.argsort (numpy)
\* Series.argsort() is np.argsort(values, kind='quicksort'): numpy's
\* aquicksort.  Ranges of more than SMALL_QUICKSORT + 1 elements are
\* partitioned around the median of three, shorter ranges are insertion
\* sorted.  Positions are 1-based here.
SMALL_QUICKSORT == 16

\* do ++pi; while (v[*pi] < vp): the first position after pi not below vp
RECURSIVE ScanUp(_, _, _, _)
ScanUp(v, tosort, vp, pi) ==
    IF v[tosort[pi + 1]] < vp THEN ScanUp(v, tosort, vp, pi + 1) ELSE pi + 1

\* do --pj; while (vp < v[*pj]): the first position before pj not above vp
RECURSIVE ScanDown(_, _, _, _)
ScanDown(v, tosort, vp, pj) ==
    IF vp < v[tosort[pj - 1]] THEN ScanDown(v, tosort, vp, pj - 1) ELSE pj - 1

\* the for (;;) loop of the partition; returns the permutation and pi
RECURSIVE PartitionLoop(_, _, _, _, _)
PartitionLoop(v, tosort, vp, pi, pj) ==
    LET i == ScanUp(v, tosort, vp, pi)
        j == ScanDown(v, tosort, vp, pj)
    IN  IF i >= j THEN [tosort |-> tosort, pi |-> i]
        ELSE PartitionLoop(v, Swap(tosort, i, j), vp, i, j)

\* the insertion sort of positions pl..pr, element pi being inserted next
RECURSIVE InsertFrom(_, _, _, _, _)
InsertFrom(v, tosort, pl, pr, pi) ==
    IF pi > pr THEN tosort
    ELSE LET vi == tosort[pi]
             vp == v[vi]
             \* elements pj..pi-1 are above vp and move one place up
             pj == CHOOSE j \in pl..pi :
                       /\ \A k \in j..(pi - 1) : vp < v[tosort[k]]
                       /\ (j > pl => ~(vp < v[tosort[j - 1]]))
             moved == [k \in 1..Len(tosort) |->
                          IF k = pj THEN vi
                          ELSE IF k > pj /\ k <= pi THEN tosort[k - 1]
                          ELSE tosort[k]]
         IN  InsertFrom(v, moved, pl, pr, pi + 1)

\* aquicksort on positions pl..pr.  The code keeps the larger part on a stack
\* and goes on with the smaller; the two parts are disjoint, so the result is
\* that of sorting one after the other.
RECURSIVE QuickSortRange(_, _, _, _)
QuickSortRange(v, tosort, pl, pr) ==
    IF pr - pl > SMALL_QUICKSORT
    THEN LET pm == pl + ((pr - pl) \div 2)
             s1 == IF v[tosort[pm]] < v[tosort[pl]] THEN Swap(tosort, pm, pl) ELSE tosort
             s2 == IF v[s1[pr]] < v[s1[pm]] THEN Swap(s1, pr, pm) ELSE s1
             s3 == IF v[s2[pm]] < v[s2[pl]] THEN Swap(s2, pm, pl) ELSE s2
             vp == v[s3[pm]]
             s4 == Swap(s3, pm, pr - 1)
             part == PartitionLoop(v, s4, vp, pl, pr - 1)
             s5 == Swap(part.tosort, part.pi, pr - 1)
             left == QuickSortRange(v, s5, pl, part.pi - 1)
         IN  QuickSortRange(v, left, part.pi + 1, pr)
    ELSE InsertFrom(v, tosort, pl, pr, pl + 1)

\* argsort that leaves the order as it is
argsort_none(v) == [k \in 1..Len(v) |-> k]

\* row.argsort(): the positions of v in ascending order of value
argsort(v) == QuickSortRange(v, [k \in 1..Len(v) |-> k], 1, Len(v))

\* ------------------------------------------------------ sort_plot_elements
\* the std row appended and then not dropped again
SortTable_keep_row(table) ==
    IF Len(table.cols) > 1
    THEN LET row == [k \in 1..Len(table.cols) |-> std(table.cols[k].v)]
             appended == AppendRow(table, Last(table.index) + 1, row)
             order == argsort(Row(appended, LastValidIndex(appended)))
             new_columns == [k \in 1..Len(order) |-> Columns(appended)[order[k]]]
         IN  Select(appended, new_columns)
    ELSE table

\* one half of sort_plot_elements: the code is the same for created and for
\* consumed
SortTable(table) ==
    IF Len(table.cols) > 1
    THEN LET row == [k \in 1..Len(table.cols) |-> std(table.cols[k].v)]
             appended == AppendRow(table, Last(table.index) + 1, row)
             order == argsort(Row(appended, LastValidIndex(appended)))
             new_columns == [k \in 1..Len(order) |-> Columns(appended)[order[k]]]
         IN  DropLastRow(Select(appended, new_columns))
    ELSE table

sort_plot_elements(cre, con) == [created |-> SortTable(cre), consumed |-> SortTable(con)]

\* ------------------------------------------------------------ stackplot
\* np.cumsum(ys, axis=0)[k]: the sum of the first k series, per timestep
RECURSIVE Cumsum(_, _)
Cumsum(ys, k) ==
    IF k = 0 THEN [t \in 1..Len(ys[1]) |-> 0]
    ELSE [t \in 1..Len(ys[1]) |-> Cumsum(ys, k - 1)[t] + ys[k][t]]

\* ax.stackplot(x, ys): layer k is filled between the sum of the layers below
\* it (y1) and that sum plus its own series (y2)
stackplot(ys) ==
    [k \in 1..Len(ys) |-> [y1 |-> Cumsum(ys, k - 1), y2 |-> Cumsum(ys, k)]]

\* table.as_matrix().T: one row per column
as_matrix_T(table) == [k \in 1..Len(table.cols) |-> table.cols[k].v]

\* the consumed rows with the minus sign left out
neg_as_matrix_T_unsigned(table) == [k \in 1..Len(table.cols) |-> table.cols[k].v]

\* -table.as_matrix().T
neg_as_matrix_T(table) ==
    [k \in 1..Len(table.cols) |-> [t \in 1..Len(table.cols[k].v) |-> 0 - table.cols[k].v[t]]]

\* ------------------------------------------------------------- to_color
\* urbs.COLORS with the colors the run script adds to it
COLORS ==
    [n \in {"Wind park", "Nord", "Heat pump plant", "Storage", "Demand", "Decoration",
             "Purchase", "Feed-In"} |->
        CASE n = "Wind park" -> <<0, 82, 147>>
          [] n = "Nord" -> <<253, 201, 128>>
          [] n = "Heat pump plant" -> <<252, 217, 116>>
          [] n = "Storage" -> <<60, 36, 154>>
          [] n = "Demand" -> <<0, 0, 0>>
          [] n = "Decoration" -> <<128, 128, 128>>
          [] n = "Purchase" -> <<0, 51, 89>>
          [] n = "Feed-In" -> <<255, 204, 0>>]

\* urbs.to_color(name): the color of a known name, a default one otherwise
to_color(name) == IF name \in DOMAIN COLORS THEN COLORS[name] ELSE <<192, 192, 192>>

\* ---------------------------------------------------------------- state
VARIABLES
    pc,                   \* the place the call has reached
    timesteps,            \* the timesteps argument: the plotted horizon
    ts,                   \* the five tables get_timeseries returns
    prices,               \* the tables get_com_price returns: [buy, sell]
    created, consumed,    \* the working tables of figure / the sorter
    stored,               \* stored['Level']
    demand,               \* the series popped from consumed
    demand_line,          \* the line drawn over the stacks
    sp0, sp00,            \* the stacked layers drawn from created / consumed
    lg_items,             \* the legend's labels
    proxy_artists,        \* the legend's swatches (their face colors)
    ax1,                  \* the lines of the secondary panel
    steps_between_ticks,  \* the tick stride axis_properties chose
    xticks,               \* the ticks set on both axes
    fig,                  \* the handle figure() returned
    raised,               \* the key of the KeyError that ended the call
    own                   \* whether created / consumed name a table of the call's own
                          \* rather than the object get_timeseries returned

vars == <<pc, timesteps, ts, prices, created, consumed, stored, demand, demand_line, sp0, sp00,
          lg_items, proxy_artists, ax1, steps_between_ticks, xticks, fig, raised, own>>

NoTable == [index |-> <<>>, cols |-> <<>>]
None == "None"

\* ----------------------------------------------------------------- inputs
\* first plotted timestep of the run script's first period
FirstStep == 1000

\* range(first, first + n)
Range(first, n) == [i \in 1..n |-> first + i - 1]

\* series over the horizon: one value at the first timestep, one afterwards
SeriesSet == {[t \in 1..NumSteps |-> IF t = 1 THEN a ELSE b] : a, b \in 0..MaxVal}
Zero == [t \in 1..NumSteps |-> 0]
Flat == {Zero, [t \in 1..NumSteps |-> MaxVal]}
Peaky == {Zero, [t \in 1..NumSteps |-> IF t = 1 THEN MaxVal ELSE 0]}

Col(name, v) == [name |-> name, v |-> v]
Table(cols) == [index |-> Range(FirstStep, NumSteps), cols |-> cols]

\* what get_timeseries(prob, com, sit, timesteps) returns: the output of one
\* process (w), the input of one process (h) with the demand (d, which a
\* malformed result lacks), the storage table (s, r), and the exchange with
\* one other site (i, e)
Timeseries(w, h, d, s, r, i, e) ==
    [created  |-> Table(<<Col("Wind park", w)>>),
     consumed |-> Table(<<Col("Heat pump plant", h)>> \o d),
     stored   |-> Table(<<Col("Level", Zero), Col("Stored", s), Col("Retrieved", r)>>),
     imported |-> Table(<<Col("Nord", i)>>),
     exported |-> Table(<<Col("Nord", e)>>)]

\* the demand columns of a result: none, or the Demand series
DemandCols == {<<>>, <<Col("Demand", [t \in 1..NumSteps |-> MaxVal])>>}

sit == "A"
BuyKey == <<sit, "Elec buy", "Buy">>
SellKey == <<sit, "Elec sell", "Sell">>

\* what get_com_price returns for the buy (b) and the sell (s) commodities
Prices(b, s) == [buy |-> Table(b), sell |-> Table(s)]

\* the column of the site is in a price table or not
BuyCols == {<<>>, <<Col(BuyKey, [t \in 1..NumSteps |-> 1])>>}
SellCols == {<<>>, <<Col(SellKey, [t \in 1..NumSteps |-> 2])>>}

Init ==
    /\ pc = "figure"
    /\ timesteps = Range(FirstStep, NumSteps)
    /\ \E w \in SeriesSet, h \in Peaky, d \in DemandCols, s \in Flat, r \in SeriesSet,
          i \in Flat, e \in Peaky :
          ts = Timeseries(w, h, d, s, r, i, e)
    /\ \E b \in BuyCols, s \in SellCols : prices = Prices(b, s)
    /\ created = NoTable /\ consumed = NoTable
    /\ stored = <<>> /\ demand = <<>> /\ demand_line = <<>>
    /\ sp0 = <<>> /\ sp00 = <<>>
    /\ lg_items = <<>> /\ proxy_artists = <<>>
    /\ ax1 = <<>>
    /\ steps_between_ticks = 0 /\ xticks = <<>>
    /\ fig = None /\ raised = None
    /\ own = [created |-> FALSE, consumed |-> FALSE]

\* ------------------------------------------------------- figure: reshaping
\* created.join(stored['Retrieved']), renamed, joined with imported
JoinedCreated(t) ==
    Join(Rename(Join(t.created, <<Col("Retrieved", Series(t.stored, "Retrieved"))>>),
                "Retrieved", "Storage"),
         t.imported.cols)

\* consumed.join(stored['Stored']), renamed, joined with exported
JoinedConsumed(t) ==
    Join(Rename(Join(t.consumed, <<Col("Stored", Series(t.stored, "Stored"))>>),
                "Stored", "Storage"),
         t.exported.cols)

\* a join that adds the columns to the table it is called on
JoinIsNew_in_place(table) == FALSE

\* table.join(...) returns a new DataFrame with data of its own: what is
\* done to the result is not done to table
JoinIsNew(table) == TRUE

\* the table the caller holds after the call changed, in place, the table it
\* works on into working: the caller's table is that object unless the call
\* works on one of its own
Held(original, working, owned) == IF owned THEN original ELSE working

\* a pop that hands out nothing instead of raising
PopRaises_never(table, name) == FALSE

\* table.pop(name) raises KeyError(name) when the table has no such column
PopRaises(table, name) == ~HasColumn(table, name)

\* the series table.pop(name) returns
Popped(table, name) == IF HasColumn(table, name) THEN Series(table, name) ELSE <<>>

\* lines 33-53, the call ending in the KeyError of consumed.pop('Demand')
ReshapeRaise ==
    /\ pc = "figure"
    /\ PopRaises(JoinedConsumed(ts), "Demand")
    /\ pc' = "raised"
    /\ raised' = "Demand"
    /\ own' = [created |-> JoinIsNew(ts.created), consumed |-> JoinIsNew(ts.consumed)]
    /\ ts' = [ts EXCEPT !.created = Held(@, JoinedCreated(ts), own'.created),
                        !.consumed = Held(@, JoinedConsumed(ts), own'.consumed)]
    /\ UNCHANGED <<timesteps, prices, created, consumed, stored, demand, demand_line, sp0, sp00,
                   lg_items, proxy_artists, ax1, steps_between_ticks, xticks, fig>>

\* lines 33-53: the tables are joined and the demand is moved out of consumed
Reshape ==
    /\ pc = "figure"
    /\ ~PopRaises(JoinedConsumed(ts), "Demand")
    /\ created' = JoinedCreated(ts)
    /\ consumed' = Without(JoinedConsumed(ts), "Demand")
    /\ demand' = Popped(JoinedConsumed(ts), "Demand")
    /\ stored' = Series(ts.stored, "Level")
    /\ own' = [created |-> JoinIsNew(ts.created), consumed |-> JoinIsNew(ts.consumed)]
    /\ ts' = [ts EXCEPT !.created = Held(@, created', own'.created),
                        !.consumed = Held(@, consumed', own'.consumed)]
    /\ pc' = "prune"
    /\ UNCHANGED <<timesteps, prices, demand_line, sp0, sp00, lg_items, proxy_artists, ax1,
                   steps_between_ticks, xticks, fig, raised>>

\* -------------------------------------------------------- figure: pruning
\* the test without the guard that keeps one column
Prunable_unguarded(cre, con, col) ==
    /\ ~any(Series(cre, col))
    /\ (~HasColumn(con, col) \/ ~any(Series(con, col)))

\* the test that does not look at consumed
Prunable_created_only(cre, con, col) ==
    /\ ~any(Series(cre, col))
    /\ Len(cre.cols) > 1

\* lines 58-59: the two tests under which created.pop(col) runs
Prunable(cre, con, col) ==
    /\ ~any(Series(cre, col))
    /\ Len(cre.cols) > 1
    /\ (~HasColumn(con, col) \/ ~any(Series(con, col)))

\* lines 57-60: the loop runs over the columns created had when it started
RECURSIVE PruneLoop(_, _, _)
PruneLoop(names, cre, con) ==
    IF names = <<>> THEN cre
    ELSE IF Prunable(cre, con, Head(names))
         THEN PruneLoop(Tail(names), Without(cre, Head(names)), con)
         ELSE PruneLoop(Tail(names), cre, con)

Prune ==
    /\ pc = "prune"
    /\ created' = PruneLoop(Columns(created), created, consumed)
    /\ ts' = [ts EXCEPT !.created = Held(@, created', own.created)]
    /\ pc' = "sort"
    /\ UNCHANGED <<own, timesteps, prices, consumed, stored, demand, demand_line, sp0, sp00, lg_items,
                   proxy_artists, ax1, steps_between_ticks, xticks, fig, raised>>

\* sort_plot_elements changes no table in place; what it returns is a new
\* table (append, then a selection of columns and rows) for a table of more
\* than one column, and the table it was given otherwise
SortedOwn(o, cre, con) ==
    [created |-> o.created \/ Len(cre.cols) > 1, consumed |-> o.consumed \/ Len(con.cols) > 1]

\* line 63
Sort ==
    /\ pc = "sort"
    /\ created' = sort_plot_elements(created, consumed).created
    /\ consumed' = sort_plot_elements(created, consumed).consumed
    /\ own' = SortedOwn(own, created, consumed)
    /\ pc' = "plot"
    /\ UNCHANGED <<timesteps, ts, prices, stored, demand, demand_line, sp0, sp00, lg_items,
                   proxy_artists, ax1, steps_between_ticks, xticks, fig, raised>>

\* ----------------------------------------------- figure: stacks and legend
\* lines 67, 75-78 and 114-121: the layers stackplot draws for the rows ys,
\* layer k filled with the color of the k-th name
Layers(ys, names) ==
    [k \in 1..Len(ys) |->
        [y1 |-> stackplot(ys)[k].y1, y2 |-> stackplot(ys)[k].y2,
         facecolor |-> to_color(names[k])]]

\* the test that lists an all-zero consumed column too
LegendSkips_only_created(cre, con, item) == HasColumn(cre, item)

\* the test that leaves out the all-zero consumed columns only
LegendSkips_only_zero(cre, con, item) == ~any(Series(con, item))

\* line 94: a consumed column already in created, or all-zero, gets no entry
LegendSkips(cre, con, item) == HasColumn(cre, item) \/ ~any(Series(con, item))

\* lines 91-101: the loop over the consumed columns, appending to the labels
\* and to the swatches
RECURSIVE LegendLoop(_, _, _, _)
LegendLoop(items, cre, con, lg) ==
    IF items = <<>> THEN lg
    ELSE IF LegendSkips(cre, con, Head(items))
         THEN LegendLoop(Tail(items), cre, con, lg)
         ELSE LegendLoop(Tail(items), cre, con,
                         [lg_items |-> Append(lg.lg_items, Head(items)),
                          proxy_artists |-> Append(lg.proxy_artists, to_color(Head(items)))])

\* lines 74-82 and 90-101: one swatch and one label per created column, then
\* the loop over consumed
Legend(cre, con) ==
    LegendLoop(Columns(con), cre, con,
               [lg_items |-> Columns(cre),
                proxy_artists |-> [k \in 1..Len(cre.cols) |-> to_color(cre.cols[k].name)]])

\* lines 65-126
Compose ==
    /\ pc = "plot"
    /\ sp0' = Layers(as_matrix_T(created), Columns(created))
    /\ lg_items' = Legend(created, consumed).lg_items
    /\ proxy_artists' = Legend(created, consumed).proxy_artists
    /\ sp00' = Layers(neg_as_matrix_T(consumed), Columns(consumed))
    /\ demand_line' = [x |-> created.index, y |-> demand, color |-> to_color("Demand")]
    /\ pc' = "secondary"
    /\ UNCHANGED <<own, timesteps, ts, prices, created, consumed, stored, demand, ax1,
                   steps_between_ticks, xticks, fig, raised>>

\* ---------------------------------------------------- plot_variable_costs
\* a test that takes any column of the price table for the column of key
PriceLine_any_column(table, key, color) ==
    IF Len(table.cols) = 0
    THEN [x |-> <<>>, y |-> <<>>, color |-> None]
    ELSE [x |-> table.index, y |-> table.cols[Len(table.cols)].v, color |-> color]

\* lines 228-234 and 238-244: the price curve of key, or an empty line when
\* the price table has no such column
PriceLine(table, key, color) ==
    IF ~HasColumn(table, key)
    THEN [x |-> <<>>, y |-> <<>>, color |-> None]
    ELSE [x |-> table.index, y |-> Series(table, key), color |-> color]

\* line 130
Secondary ==
    /\ pc = "secondary"
    /\ ax1' = <<PriceLine(prices.buy, BuyKey, to_color("Purchase")),
                PriceLine(prices.sell, SellKey, to_color("Feed-In"))>>
    /\ pc' = "axis"
    /\ UNCHANGED <<own, timesteps, ts, prices, created, consumed, stored, demand, demand_line,
                   sp0, sp00, lg_items, proxy_artists, steps_between_ticks, xticks, fig,
                   raised>>

\* --------------------------------------------------------- axis_properties
\* the stride with the bounds of the bands taken into the upper band
StepsBetweenTicks_inclusive(n) ==
    IF n >= 26 * 168 THEN 168 * 4
    ELSE IF n >= 3 * 168 THEN 168
    ELSE IF n >= 2 * 24 THEN 24
    ELSE IF n >= 24 THEN 6
    ELSE 3

\* lines 316-325, n being len(timesteps)
StepsBetweenTicks(n) ==
    IF n > 26 * 168 THEN 168 * 4
    ELSE IF n > 3 * 168 THEN 168
    ELSE IF n > 2 * 24 THEN 24
    ELSE IF n > 24 THEN 6
    ELSE 3

\* s[::step]
Slice(s, step) == [k \in 1..((Len(s) + step - 1) \div step) |-> s[(k - 1) * step + 1]]

\* line 134 (lines 303-345)
AxisProperties ==
    /\ pc = "axis"
    /\ steps_between_ticks' = StepsBetweenTicks(Len(timesteps))
    /\ xticks' = Slice(timesteps, StepsBetweenTicks(Len(timesteps)))
    /\ pc' = "return"
    /\ UNCHANGED <<own, timesteps, ts, prices, created, consumed, stored, demand, demand_line,
                   sp0, sp00, lg_items, proxy_artists, ax1, fig, raised>>

\* line 136
Return ==
    /\ pc = "return"
    /\ fig' = "fig"
    /\ pc' = "done"
    /\ UNCHANGED <<own, timesteps, ts, prices, created, consumed, stored, demand, demand_line,
                   sp0, sp00, lg_items, proxy_artists, ax1, steps_between_ticks, xticks,
                   raised>>

Next ==
    \/ ReshapeRaise
    \/ Reshape
    \/ Prune
    \/ Sort
    \/ Compose
    \/ Secondary
    \/ AxisProperties
    \/ Return

Spec == Init /\ [][Next]_vars

\* ------------------------------------- sort_plot_elements called on its own
\* the narrowest table aquicksort partitions
WideCols == SMALL_QUICKSORT + 2

Names ==
    <<"P01", "P02", "P03", "P04", "P05", "P06", "P07", "P08", "P09", "P10",
      "P11", "P12", "P13", "P14", "P15", "P16", "P17", "P18", "P19", "P20">>

\* table[table.columns[::-1]]
Reversed(table) ==
    [table EXCEPT !.cols = [k \in 1..Len(@) |-> @[Len(@) + 1 - k]]]

\* a table of the columns f[1], f[2], ...
NarrowTable(f) == Table([k \in 1..Len(f) |-> Col(Names[k], f[k])])

\* a table of WideCols columns: constant columns, but for columns i and j,
\* which have one peak
WideTable(i, j) ==
    Table([k \in 1..WideCols |->
             Col(Names[k], [t \in 1..NumSteps |-> IF k \in {i, j} /\ t > 1 THEN 0 ELSE MaxVal])])

\* sort_plot_elements(t, t[t.columns[::-1]]) is about to be called
SortArguments(t) ==
    ts = [created |-> t, consumed |-> Reversed(t), stored |-> NoTable,
          imported |-> NoTable, exported |-> NoTable]

InitSort ==
    /\ pc = "sort_plot_elements"
    /\ timesteps = Range(FirstStep, NumSteps)
    /\ \/ \E n \in 1..MaxCols : \E f \in [1..n -> SeriesSet] : SortArguments(NarrowTable(f))
       \/ \E i, j \in 0..WideCols : SortArguments(WideTable(i, j))
    /\ prices = [buy |-> NoTable, sell |-> NoTable]
    /\ created = NoTable /\ consumed = NoTable
    /\ stored = <<>> /\ demand = <<>> /\ demand_line = <<>>
    /\ sp0 = <<>> /\ sp00 = <<>>
    /\ lg_items = <<>> /\ proxy_artists = <<>>
    /\ ax1 = <<>>
    /\ steps_between_ticks = 0 /\ xticks = <<>>
    /\ fig = None /\ raised = None
    /\ own = [created |-> FALSE, consumed |-> FALSE]

\* sort_plot_elements(created, consumed) on the tables of ts
SortCall ==
    /\ pc = "sort_plot_elements"
    /\ created' = sort_plot_elements(ts.created, ts.consumed).created
    /\ consumed' = sort_plot_elements(ts.created, ts.consumed).consumed
    /\ own' = SortedOwn(own, ts.created, ts.consumed)
    /\ pc' = "sorted"
    /\ UNCHANGED <<timesteps, ts, prices, stored, demand, demand_line, sp0, sp00, lg_items,
                   proxy_artists, ax1, steps_between_ticks, xticks, fig, raised>>

\* sort_plot_elements again, on the tables it returned
SortAgain ==
    /\ pc = "sorted"
    /\ created' = sort_plot_elements(created, consumed).created
    /\ consumed' = sort_plot_elements(created, consumed).consumed
    /\ own' = SortedOwn(own, created, consumed)
    /\ pc' = "resorted"
    /\ UNCHANGED <<timesteps, ts, prices, stored, demand, demand_line, sp0, sp00, lg_items,
                   proxy_artists, ax1, steps_between_ticks, xticks, fig, raised>>

NextSort == SortCall \/ SortAgain

SpecSort == InitSort /\ [][NextSort]_vars

\* ---------------------------------------- axis_properties called on its own
\* the horizon lengths given to axis_properties: every short one, the run
\* script's period, the lengths around each threshold, and a year of hours
Horizons ==
    (1..MaxHorizon) \cup {24 * 7 + 1, 200, 3 * 168, 3 * 168 + 1, 26 * 168, 26 * 168 + 1, 8760}

InitAxis ==
    /\ pc = "axis"
    /\ \E n \in Horizons, first \in {0, FirstStep} : timesteps = Range(first, n)
    /\ ts = [created |-> NoTable, consumed |-> NoTable, stored |-> NoTable,
             imported |-> NoTable, exported |-> NoTable]
    /\ prices = [buy |-> NoTable, sell |-> NoTable]
    /\ created = NoTable /\ consumed = NoTable
    /\ stored = <<>> /\ demand = <<>> /\ demand_line = <<>>
    /\ sp0 = <<>> /\ sp00 = <<>>
    /\ lg_items = <<>> /\ proxy_artists = <<>>
    /\ ax1 = <<>>
    /\ steps_between_ticks = 0 /\ xticks = <<>>
    /\ fig = None /\ raised = None
    /\ own = [created |-> FALSE, consumed |-> FALSE]

NextAxis == AxisProperties

SpecAxis == InitAxis /\ [][NextAxis]_vars

\* ------------------------------------ plot_variable_costs called on its own
\* the price columns of another site
OtherBuyKey == <<"B", "Elec buy", "Buy">>
OtherSellKey == <<"B", "Elec sell", "Sell">>

\* the columns a price table can have: the other site's or not, then the
\* column of key, with any price series, or not
PriceCols(other, key) ==
    { o \o k : o \in {<<>>, <<Col(other, [t \in 1..NumSteps |-> 1])>>},
               k \in {<<>>} \cup {<<Col(key, p)>> : p \in SeriesSet} }

InitCosts ==
    /\ pc = "secondary"
    /\ timesteps = Range(FirstStep, NumSteps)
    /\ ts = [created |-> NoTable, consumed |-> NoTable, stored |-> NoTable,
             imported |-> NoTable, exported |-> NoTable]
    /\ \E b \in PriceCols(OtherBuyKey, BuyKey), s \in PriceCols(OtherSellKey, SellKey) :
          prices = Prices(b, s)
    /\ created = NoTable /\ consumed = NoTable
    /\ stored = <<>> /\ demand = <<>> /\ demand_line = <<>>
    /\ sp0 = <<>> /\ sp00 = <<>>
    /\ lg_items = <<>> /\ proxy_artists = <<>>
    /\ ax1 = <<>>
    /\ steps_between_ticks = 0 /\ xticks = <<>>
    /\ fig = None /\ raised = None
    /\ own = [created |-> FALSE, consumed |-> FALSE]

NextCosts == Secondary

SpecCosts == InitCosts /\ [][NextCosts]_vars

\* ================================================================ claims
\* the tables figure() prunes: created and consumed as joined, the demand
\* taken out of consumed
CreatedIn == JoinedCreated(ts)
ConsumedIn == Without(JoinedConsumed(ts), "Demand")

\* a created column that is all-zero in created and absent from, or all-zero
\* in, consumed
Removable(name) ==
    /\ \A t \in 1..NumSteps : Series(CreatedIn, name)[t] = 0
    /\ \/ name \notin {ConsumedIn.cols[k].name : k \in 1..Len(ConsumedIn.cols)}
       \/ \A t \in 1..NumSteps : Series(ConsumedIn, name)[t] = 0

AllRemovable == \A k \in 1..Len(CreatedIn.cols) : Removable(CreatedIn.cols[k].name)

\* C1: after the pruning loop of figure() created still has at least one
\* column, also when every column of created is all-zero in created and in
\* consumed.
C1_PruneKeepsAColumn ==
    pc = "sort" => Len(CreatedIn.cols) >= 1 /\ Len(created.cols) >= 1

\* C1 witness: the loop has run on a created table all of whose columns are
\* all-zero in both tables.
C1_Witness ==
    /\ pc = "sort"
    /\ AllRemovable
    /\ Len(CreatedIn.cols) = 3
    /\ Len(created.cols) = 1

\* C2: the pruning loop removes exactly the removable columns (all-zero in
\* created, and absent from or all-zero in consumed) and leaves the others
\* as they were; when every column is removable it keeps exactly the last
\* one.
C2_PruneExact ==
    pc = "sort" =>
        /\ created.index = CreatedIn.index
        /\ created.cols =
             IF AllRemovable THEN <<CreatedIn.cols[Len(CreatedIn.cols)]>>
             ELSE SelectSeq(CreatedIn.cols, LAMBDA c : ~Removable(c.name))

\* C2 witness: one column has been removed while another, all-zero in
\* created, stays because the consumed column of its name is not all-zero.
C2_Witness ==
    /\ pc = "sort"
    /\ Len(created.cols) < Len(CreatedIn.cols)
    /\ \E k \in 1..Len(created.cols) :
          /\ \A t \in 1..NumSteps : created.cols[k].v[t] = 0
          /\ \E t \in 1..NumSteps : Series(ConsumedIn, created.cols[k].name)[t] # 0

\* the call has drawn or returned nothing
NothingProduced ==
    /\ fig = None
    /\ sp0 = <<>> /\ sp00 = <<>> /\ demand_line = <<>>
    /\ lg_items = <<>> /\ proxy_artists = <<>>
    /\ ax1 = <<>> /\ xticks = <<>>

\* C3: when the joined consumed table has no Demand column the call can only
\* end in the error of the missing Demand series: it gets no further than
\* that, no handle is returned, and no layer, legend or secondary panel is
\* produced.
C3_MissingDemandAborts ==
    /\ ~(\E k \in 1..Len(JoinedConsumed(ts).cols) : JoinedConsumed(ts).cols[k].name = "Demand")
         => /\ pc \in {"figure", "raised"}
            /\ NothingProduced
            /\ (pc = "figure" => ENABLED ReshapeRaise)
    /\ pc = "raised" => raised = "Demand"
    /\ raised # None => pc = "raised" /\ NothingProduced

\* C3 witness: a call on a consumed table without Demand has ended.
C3_Witness ==
    /\ pc = "raised"
    /\ raised = "Demand"
    /\ "Demand" \notin {ts.consumed.cols[k].name : k \in 1..Len(ts.consumed.cols)}

\* the columns of table in ascending order of the standard deviation they
\* have in the table inp
Ascending(inp, table) ==
    \A k \in 1..(Len(table.cols) - 1) :
        std(Series(inp, table.cols[k].name)) <= std(Series(inp, table.cols[k + 1].name))

\* C4: sort_plot_elements returns the columns of a table of two or more
\* columns in ascending order of their standard deviation over all rows of
\* the input, for created and for consumed alike.
C4_SortedAscending ==
    pc = "sorted" =>
        /\ Len(created.cols) = Len(ts.created.cols)
        /\ Len(consumed.cols) = Len(ts.consumed.cols)
        /\ Ascending(ts.created, created)
        /\ Ascending(ts.consumed, consumed)

\* C4 witness: a table of three columns of three different deviations, given
\* in descending order, has been sorted.
C4_Witness ==
    /\ pc = "sorted"
    /\ Len(ts.created.cols) = 3
    /\ std(ts.created.cols[1].v) > std(ts.created.cols[2].v)
    /\ std(ts.created.cols[2].v) > std(ts.created.cols[3].v)
    /\ Columns(created) = <<ts.created.cols[3].name, ts.created.cols[2].name,
                            ts.created.cols[1].name>>

\* the position of the column called name in table
PositionOf(table, name) == CHOOSE k \in 1..Len(table.cols) : table.cols[k].name = name

\* columns of equal standard deviation are in out in the order they have in inp
Stable(inp, out) ==
    \A i, j \in 1..Len(inp.cols) :
        (i < j /\ std(inp.cols[i].v) = std(inp.cols[j].v))
            => PositionOf(out, inp.cols[i].name) < PositionOf(out, inp.cols[j].name)

\* C5: sort_plot_elements is stable: two columns of equal standard deviation
\* come out in the relative order they went in.
C5_SortStable ==
    pc = "sorted" => Stable(ts.created, created) /\ Stable(ts.consumed, consumed)

\* C6: sort_plot_elements is idempotent: sorting the tables it returned
\* returns them unchanged.
C6_SortIdempotent ==
    [][(pc = "sorted" /\ pc' = "resorted") => (created' = created /\ consumed' = consumed)]_vars

\* out has the rows and the named columns of inp, value for value
SameData(inp, out) ==
    /\ out.index = inp.index
    /\ Len(out.cols) = Len(inp.cols)
    /\ {out.cols[k].name : k \in 1..Len(out.cols)} = {inp.cols[k].name : k \in 1..Len(inp.cols)}
    /\ \A k \in 1..Len(out.cols) :
          \E i \in 1..Len(inp.cols) : inp.cols[i] = out.cols[k]
    /\ (Len(inp.cols) = 1 => out = inp)

\* C7: sort_plot_elements only permutes columns: the rows, the set of column
\* names and every column's values are those of the input, and a table of
\* one column is returned as it is.
C7_SortOnlyPermutes ==
    pc = "sorted" => SameData(ts.created, created) /\ SameData(ts.consumed, consumed)

\* C7 witness: a table has been sorted into another column order.
C7_Witness ==
    /\ pc = "sorted"
    /\ Len(ts.created.cols) >= 2
    /\ Columns(created) # Columns(ts.created)
    /\ std(ts.created.cols[1].v) > 0

\* the sum of the columns of table at row t
RowSum(table, t) == SumSeq([k \in 1..Len(table.cols) |-> table.cols[k].v[t]])

\* C8: at every timestep the top of the stack drawn from created is the sum
\* of the created columns, and the bottom of the stack drawn from consumed is
\* the negated sum of the consumed columns without Demand; the sums are those
\* of the tables before pruning and sorting.
C8_StackEnvelope ==
    pc \in {"secondary", "axis", "return", "done"} =>
        /\ Len(sp0) = Len(created.cols) /\ Len(sp0) >= 1
        /\ Len(sp00) = Len(consumed.cols) /\ Len(sp00) >= 1
        /\ \A t \in 1..NumSteps :
              /\ sp0[Len(sp0)].y2[t] = RowSum(created, t)
              /\ sp0[Len(sp0)].y2[t] = RowSum(CreatedIn, t)
              /\ sp00[Len(sp00)].y2[t] = 0 - RowSum(consumed, t)
              /\ sp00[Len(sp00)].y2[t] = 0 - RowSum(ConsumedIn, t)

\* C8 witness: a chart is drawn whose created table lost a column to the
\* pruning and had its columns reordered, with two layers that are not
\* all-zero in each stack.
C8_Witness ==
    /\ pc = "done"
    /\ Len(created.cols) = 2
    /\ Columns(created) = <<"Storage", "Wind park">>
    /\ \A k \in 1..2 : \E t \in 1..NumSteps : created.cols[k].v[t] # 0
    /\ Cardinality({k \in 1..Len(consumed.cols) :
                       \E t \in 1..NumSteps : consumed.cols[k].v[t] # 0}) >= 2

\* a consumed column that gets a legend entry of its own
ConsumedOnly(name) ==
    /\ name \notin {created.cols[k].name : k \in 1..Len(created.cols)}
    /\ \E t \in 1..NumSteps : Series(consumed, name)[t] # 0

\* C9: the legend lists the columns of the pruned and sorted created table in
\* their order, then the consumed columns that are no created column and not
\* all-zero, in their order; there is one swatch per label, colored by
\* to_color of the label.
C9_Legend ==
    pc \in {"secondary", "axis", "return", "done"} =>
        /\ lg_items = Columns(created) \o SelectSeq(Columns(consumed), ConsumedOnly)
        /\ Len(lg_items) = Len(created.cols) +
              Cardinality({k \in 1..Len(consumed.cols) : ConsumedOnly(consumed.cols[k].name)})
        /\ Len(proxy_artists) = Len(lg_items)
        /\ \A k \in 1..Len(lg_items) : proxy_artists[k] = to_color(lg_items[k])

\* C9 witness: a legend with an entry for a consumed-only column, while one
\* consumed column is left out for being a created column and another for
\* being all-zero.
C9_Witness ==
    /\ pc = "done"
    /\ Len(lg_items) = Len(created.cols) + 1
    /\ Last(lg_items) = "Heat pump plant"
    /\ \E k \in 1..Len(consumed.cols) :
          /\ consumed.cols[k].name \in {created.cols[i].name : i \in 1..Len(created.cols)}
          /\ \E t \in 1..NumSteps : consumed.cols[k].v[t] # 0
    /\ \E k \in 1..Len(consumed.cols) :
          /\ consumed.cols[k].name \notin {created.cols[i].name : i \in 1..Len(created.cols)}
          /\ \A t \in 1..NumSteps : consumed.cols[k].v[t] = 0

\* C10: the tick stride follows from the horizon length n by strict
\* thresholds (n > 4368: 672, n > 504: 168, n > 48: 24, n > 24: 6, else 3),
\* and the ticks are every stride-th timestep from the first one on.
C10_TickStride ==
    pc = "return" =>
        LET n == Len(timesteps)
            stride == steps_between_ticks
        IN  /\ (n > 4368 => stride = 672)
            /\ (n <= 4368 /\ n > 504 => stride = 168)
            /\ (n <= 504 /\ n > 48 => stride = 24)
            /\ (n <= 48 /\ n > 24 => stride = 6)
            /\ (n <= 24 => stride = 3)
            /\ (n = 8760 => stride = 672) /\ (n = 200 => stride = 24)
            /\ (n = 30 => stride = 6) /\ (n = 10 => stride = 3)
            /\ Len(xticks) = Cardinality({i \in 0..(n - 1) : i % stride = 0})
            /\ xticks[1] = timesteps[1]
            /\ \A k \in 1..Len(xticks) : xticks[k] = timesteps[1 + (k - 1) * stride]

\* C10 witness: axis_properties has run on a horizon whose length is the
\* threshold 4368 itself.
C10_Witness ==
    /\ pc = "return"
    /\ Len(timesteps) = 4368
    /\ steps_between_ticks = 168
    /\ Len(xticks) = 26

\* the names of the columns of table
ColumnNames(table) == {table.cols[k].name : k \in 1..Len(table.cols)}

\* line is the curve drawn for key from table: empty when table has no column
\* key, the price series of that column in the given color otherwise
CurveOf(line, table, key, color) ==
    /\ key \notin ColumnNames(table) => line.x = <<>> /\ line.y = <<>>
    /\ key \in ColumnNames(table) =>
          /\ line.x = table.index
          /\ \E k \in 1..Len(table.cols) : table.cols[k].name = key /\ line.y = table.cols[k].v
          /\ line.color = color

\* C11: plot_variable_costs does not raise for a missing price key: each of
\* the two curves, independently of the other, is an empty line when the
\* price table lacks the column of its key and the price series of that
\* column otherwise, and the panel is returned with both curves.
C11_MissingKeyEmptyCurve ==
    pc = "axis" =>
        /\ raised = None
        /\ Len(ax1) = 2
        /\ CurveOf(ax1[1], prices.buy, BuyKey, to_color("Purchase"))
        /\ CurveOf(ax1[2], prices.sell, SellKey, to_color("Feed-In"))

\* C11 witness: the panel has been drawn from price tables that have columns,
\* but neither the buy nor the sell column of the site: both curves are empty.
C11_Witness ==
    /\ pc = "axis"
    /\ Len(prices.buy.cols) = 1 /\ BuyKey \notin ColumnNames(prices.buy)
    /\ Len(prices.sell.cols) = 1 /\ SellKey \notin ColumnNames(prices.sell)
    /\ Len(ax1) = 2
    /\ ax1[1].x = <<>> /\ ax1[2].x = <<>>

\* C12: a call of figure() leaves the five tables get_timeseries returned as
\* they were, at every step and whether it returns or raises: joining,
\* renaming, taking out Demand, pruning and sorting change tables of the
\* call's own.
C12_InputsUnchanged == [][ts' = ts]_vars

\* C12 witness: a call has returned whose created table was joined, renamed,
\* pruned and reordered and whose consumed table lost Demand, on tables of
\* its own.
C12_Witness ==
    /\ pc = "done"
    /\ own.created /\ own.consumed
    /\ Len(created.cols) = 2
    /\ Columns(created) = <<"Storage", "Wind park">>
    /\ Columns(ts.created) = <<"Wind park">>
    /\ "Demand" \in ColumnNames(ts.consumed)
    /\ "Demand" \notin ColumnNames(consumed)
    /\ "Storage" \in ColumnNames(consumed)

\* name has a value other than zero in a column of table
NonzeroIn(table, name) ==
    \E k \in 1..Len(table.cols) :
        table.cols[k].name = name /\ \E t \in 1..NumSteps : table.cols[k].v[t] # 0

\* the number of legend entries labelled name
Entries(name) == Cardinality({k \in 1..Len(lg_items) : lg_items[k] = name})

\* C13: after a successful render every series other than Demand that is not
\* all-zero in created or in consumed (as joined, before pruning) has exactly
\* one legend entry, no label is listed twice, and every layer drawn with a
\* thickness carries a label of the legend.
C13_LegendCoversSeries ==
    pc \in {"secondary", "axis", "return", "done"} =>
        /\ \A name \in (ColumnNames(CreatedIn) \cup ColumnNames(ConsumedIn)) \ {"Demand"} :
              (NonzeroIn(CreatedIn, name) \/ NonzeroIn(ConsumedIn, name)) => Entries(name) = 1
        /\ \A i, j \in 1..Len(lg_items) : i # j => lg_items[i] # lg_items[j]
        /\ \A k \in 1..Len(sp0) : sp0[k].y1 # sp0[k].y2 => Entries(created.cols[k].name) = 1
        /\ \A k \in 1..Len(sp00) : sp00[k].y1 # sp00[k].y2 => Entries(consumed.cols[k].name) = 1

\* C13 witness: a chart is drawn in which Storage is all-zero in created but
\* not in consumed, the process input exists in consumed only, and the
\* exchange with the other site is not all-zero in either table.
C13_Witness ==
    /\ pc = "done"
    /\ ~NonzeroIn(CreatedIn, "Storage") /\ NonzeroIn(ConsumedIn, "Storage")
    /\ "Heat pump plant" \notin ColumnNames(CreatedIn) /\ NonzeroIn(ConsumedIn, "Heat pump plant")
    /\ NonzeroIn(CreatedIn, "Nord") /\ NonzeroIn(ConsumedIn, "Nord")
    /\ Entries("Storage") = 1 /\ Entries("Heat pump plant") = 1 /\ Entries("Nord") = 1

====
